---- MODULE Spec2Model ----
(***************************************************************************)
(* Praymodoro: the clock-synchronised pomodoro timer (TimeController), its *)
(* fixed segment table, and the events it fans out to its listeners.       *)
(***************************************************************************)
EXTENDS Integers, Sequences, FiniteSets, TLC

VARIABLES
    now,        \* wall clock, in seconds since the top of the hour (Date)
    intervalId, \* TimeController.intervalId: the armed interval's id, or null
    timers,     \* the host's armed interval timers (setInterval/clearInterval)
    lastMode,   \* TimeController.lastMode: "null", "work" or "rest"
    listeners,  \* event names a listener is registered for on the emitter
    emitted,    \* the events the last operation passed to emit(), in order
    delivered,  \* the events of the last operation that reached a listener
    lastOp,     \* the operation that ran last
    prevTick,   \* history: the mode of the last tick event emitted, or "null"
    sinceStart, \* history: start() was called and destroy() not since
    sinceStop,  \* history: stop()/destroy() returned and start() not called since
    table,      \* the segment table getCurrentPeriod searches (POMODORO_SEGMENTS)
    faulted,    \* history: a recompute cycle of an armed timer threw
    \* the application around the timer (main process)
    phase,      \* "none" (no app), "launching", "threw" (createApp threw)
                \* or "quit"
    platform,   \* process.platform: "darwin" or "other"
    window,     \* WindowManager.window: "open" or "null"
    currentMode, \* WindowManager.currentMode
    sent,       \* the messages the last operation sent to the window's renderer
    countdown,  \* TrayManager.currentCountdown
    lastSent,   \* history: formattedTime of the last time-update sent, or "none"
    elapsed,    \* the moves of the clock followed so far
    \* the window, the settings store, the menus and the renderer
    scale,      \* WindowManager.scale, in hundredths (1.0 is 100)
    settings,   \* the settings store (scale and opacity in hundredths)
    currentScale, \* the scale the tray menu's click handlers captured
    isVisible,  \* the character window is shown
    renderer,   \* the renderer: load state, currentMode, currentCharacter, DOM
    inflight,   \* the messages sent to the renderer it has not received yet
    actions,    \* menu actions and IPC requests handled so far
    \* the SettingsManager and the CustomMenuManager, exercised on their own
    args,       \* history: the arguments of the last call of a method
    returned,   \* history: what the last call of formatTime returned
    menuWindow, \* CustomMenuManager.menuWindow: a menu window's number or null
    menuWindows, \* the state of each menu window created so far, by number
    menuIPC,    \* ipcMain has the CustomMenuManager's listeners (setupIPC)
    refreshes   \* the deferred rebuilds of the tray menu that are still due

\* The timer's own state (TimeController and the host's timers and clock).
timerVars == <<now, intervalId, timers, lastMode, listeners, emitted, delivered,
               lastOp, prevTick, sinceStart, sinceStop, table, faulted>>

\* The state of the application around it.
appVars == <<phase, platform, window, currentMode, sent, countdown,
             lastSent, elapsed>>

\* The state the menus and the IPC handlers work on.
uiVars == <<scale, settings, currentScale, isVisible, renderer, inflight, actions>>

\* The state of the managers exercised on their own.
partVars == <<args, returned, menuWindow, menuWindows, menuIPC, refreshes>>

vars == <<timerVars, appVars, uiVars, partVars>>

\* ---------------------------------------------------------------- bounds

\* Most interval timers the host can hold armed at once.
MaxTimers == 2

\* Longest jump of the wall clock in one step (system sleep), in seconds.
MaxSleep == 60

\* The moves of the clock that are followed.
MaxElapsed == 3

\* The menu actions and IPC requests that are followed.
MaxActions == 2

\* The menu windows a CustomMenuManager creates.
MaxMenus == 3

\* The messages on their way to the renderer at one time.
MaxInflight == 2

\* ------------------------------------------------------------- constants

\* intervalId's null
null == 0

\* A table whose first rest segment runs one minute into the next work segment.
POMODORO_SEGMENTS_overlap ==
    << [startMinute |-> 0,  endMinute |-> 25, type |-> "work"],
       [startMinute |-> 25, endMinute |-> 31, type |-> "rest"],
       [startMinute |-> 30, endMinute |-> 55, type |-> "work"],
       [startMinute |-> 55, endMinute |-> 60, type |-> "rest"] >>

\* shared/constants.ts: POMODORO_SEGMENTS
POMODORO_SEGMENTS ==
    << [startMinute |-> 0,  endMinute |-> 25, type |-> "work"],
       [startMinute |-> 25, endMinute |-> 30, type |-> "rest"],
       [startMinute |-> 30, endMinute |-> 55, type |-> "work"],
       [startMinute |-> 55, endMinute |-> 60, type |-> "rest"] >>

\* shared/types.ts: PomodoroMode
PomodoroMode == {"work", "rest"}

\* The value standing for the Error getCurrentPeriod throws.
InvalidTimeState == [type |-> "error", remaining |-> 0]

\* -------------------------------------------------------- pure functions

\* Date.getMinutes() / Date.getSeconds() of the wall clock
getMinutes(t) == (t \div 60) % 60
getSeconds(t) == t % 60

\* find with the segment's end minute taken as part of it (<= for <).
RECURSIVE findSegment_inclusiveEnd(_, _, _)
findSegment_inclusiveEnd(segments, minutes, i) ==
    IF i > Len(segments) THEN 0
    ELSE IF minutes >= segments[i].startMinute /\ minutes <= segments[i].endMinute
         THEN i
         ELSE findSegment_inclusiveEnd(segments, minutes, i + 1)

\* Array.prototype.find over the table: the index of the first segment that
\* holds the minute, 0 when there is none (undefined).
RECURSIVE findSegment(_, _, _)
findSegment(segments, minutes, i) ==
    IF i > Len(segments) THEN 0
    ELSE IF minutes >= segments[i].startMinute /\ minutes < segments[i].endMinute
         THEN i
         ELSE findSegment(segments, minutes, i + 1)

\* getCurrentPeriod counting the remaining time from the segment's start.
getCurrentPeriod_fromStart(minutes, seconds) ==
    LET i == findSegment(table, minutes, 1) IN
    IF i = 0 THEN InvalidTimeState
    ELSE LET segment == table[i]
             currentSecond == minutes * 60 + seconds
             remaining == currentSecond - segment.startMinute * 60
         IN [type |-> segment.type, remaining |-> remaining]

\* getCurrentPeriod counting the current second as already gone.
getCurrentPeriod_offByOne(minutes, seconds) ==
    LET i == findSegment(table, minutes, 1) IN
    IF i = 0 THEN InvalidTimeState
    ELSE LET segment == table[i]
             currentSecond == minutes * 60 + seconds
             endSecond == segment.endMinute * 60
             remaining == endSecond - currentSecond - 1
         IN [type |-> segment.type, remaining |-> remaining]

\* getCurrentPeriod leaving the seconds out of the current second.
getCurrentPeriod_noSeconds(minutes, seconds) ==
    LET i == findSegment(table, minutes, 1) IN
    IF i = 0 THEN InvalidTimeState
    ELSE LET segment == table[i]
             currentSecond == minutes * 60
             endSecond == segment.endMinute * 60
             remaining == endSecond - currentSecond
         IN [type |-> segment.type, remaining |-> remaining]

\* TimeController.getCurrentPeriod, on the minutes and seconds of new Date()
getCurrentPeriod(minutes, seconds) ==
    LET i == findSegment(table, minutes, 1) IN
    IF i = 0 THEN InvalidTimeState
    ELSE LET segment == table[i]
             currentSecond == minutes * 60 + seconds
             endSecond == segment.endMinute * 60
             remaining == endSecond - currentSecond
         IN [type |-> segment.type, remaining |-> remaining]

\* ------------------------------------------------------------ operations

\* EventEmitter.emit as seen by the listeners: the emitted events whose name
\* has a listener registered.
RECURSIVE deliver(_, _)
deliver(events, ls) ==
    IF events = <<>> THEN <<>>
    ELSE (IF Head(events).name \in ls THEN <<Head(events)>> ELSE <<>>)
         \o deliver(Tail(events), ls)

\* tick() without the test for a first tick (lastMode !== null).
tickEvents_noNullTest(lm, t) ==
    LET state == getCurrentPeriod(getMinutes(t), getSeconds(t)) IN
    IF state = InvalidTimeState THEN <<>>
    ELSE <<[name |-> "tick", type |-> state.type, remaining |-> state.remaining]>>
         \o (IF lm # state.type
             THEN <<[name |-> "period-change", type |-> state.type,
                     remaining |-> state.remaining]>>
             ELSE <<>>)

\* tick() comparing the modes the wrong way round (=== for !==).
tickEvents_onSameMode(lm, t) ==
    LET state == getCurrentPeriod(getMinutes(t), getSeconds(t)) IN
    IF state = InvalidTimeState THEN <<>>
    ELSE <<[name |-> "tick", type |-> state.type, remaining |-> state.remaining]>>
         \o (IF lm # "null" /\ lm = state.type
             THEN <<[name |-> "period-change", type |-> state.type,
                     remaining |-> state.remaining]>>
             ELSE <<>>)

\* tick() emitting period-change before the tick event.
tickEvents_changeFirst(lm, t) ==
    LET state == getCurrentPeriod(getMinutes(t), getSeconds(t)) IN
    IF state = InvalidTimeState THEN <<>>
    ELSE (IF lm # "null" /\ lm # state.type
          THEN <<[name |-> "period-change", type |-> state.type,
                  remaining |-> state.remaining]>>
          ELSE <<>>)
         \o <<[name |-> "tick", type |-> state.type, remaining |-> state.remaining]>>

\* tick() emitting the tick event alone.
tickEvents_tickOnly(lm, t) ==
    LET state == getCurrentPeriod(getMinutes(t), getSeconds(t)) IN
    IF state = InvalidTimeState THEN <<>>
    ELSE <<[name |-> "tick", type |-> state.type, remaining |-> state.remaining]>>

\* The events one call of tick() emits when lastMode is lm and the clock t.
tickEvents(lm, t) ==
    LET state == getCurrentPeriod(getMinutes(t), getSeconds(t)) IN
    IF state = InvalidTimeState THEN <<>>
    ELSE <<[name |-> "tick", type |-> state.type, remaining |-> state.remaining]>>
         \o (IF lm # "null" /\ lm # state.type
             THEN <<[name |-> "period-change", type |-> state.type,
                     remaining |-> state.remaining]>>
             ELSE <<>>)

\* tick() remembering the mode only in a cycle without period-change.
tick_remembersWithoutChange ==
    LET state == getCurrentPeriod(getMinutes(now), getSeconds(now)) IN
    /\ emitted' = tickEvents(lastMode, now)
    /\ delivered' = deliver(tickEvents(lastMode, now), listeners)
    /\ lastMode' = IF state = InvalidTimeState \/ Len(tickEvents(lastMode, now)) > 1
                   THEN lastMode ELSE state.type
    /\ prevTick' = IF state = InvalidTimeState THEN prevTick ELSE state.type
    /\ faulted' = (faulted \/ (state = InvalidTimeState /\ intervalId # null))

\* TimeController.tick: recompute, emit tick, emit period-change on a change
\* of mode, remember the mode. A throw of getCurrentPeriod leaves all as is.
tick ==
    LET state == getCurrentPeriod(getMinutes(now), getSeconds(now)) IN
    /\ emitted' = tickEvents(lastMode, now)
    /\ delivered' = deliver(tickEvents(lastMode, now), listeners)
    /\ lastMode' = IF state = InvalidTimeState THEN lastMode ELSE state.type
    /\ prevTick' = IF state = InvalidTimeState THEN prevTick ELSE state.type
    /\ faulted' = (faulted \/ (state = InvalidTimeState /\ intervalId # null))

\* The id setInterval hands out: one not armed yet.
freshId == CHOOSE id \in 1..MaxTimers : id \notin timers /\
               \A j \in 1..MaxTimers : j \notin timers => id <= j

\* start() without the test for a running interval.
start_noGuard ==
    /\ lastOp' = "start"
    /\ sinceStart' = TRUE
    /\ sinceStop' = FALSE
    /\ \E id \in 1..MaxTimers : id \notin timers
    /\ tick
    /\ intervalId' = freshId
    /\ timers' = timers \cup {freshId}
    /\ UNCHANGED <<now, listeners, table>>

\* start() arming the interval before its initial tick.
start_armsFirst ==
    /\ lastOp' = "start"
    /\ sinceStart' = TRUE
    /\ sinceStop' = FALSE
    /\ IF intervalId # null
       THEN /\ emitted' = <<>>
            /\ delivered' = <<>>
            /\ UNCHANGED <<now, intervalId, timers, lastMode, listeners, prevTick, table, faulted>>
       ELSE /\ \E id \in 1..MaxTimers : id \notin timers
            /\ tick
            /\ intervalId' = freshId
            /\ timers' = timers \cup {freshId}
            /\ UNCHANGED <<now, listeners, table>>

\* TimeController.start
start ==
    /\ lastOp' = "start"
    /\ sinceStart' = TRUE
    /\ sinceStop' = FALSE
    /\ IF intervalId # null
       THEN /\ emitted' = <<>>
            /\ delivered' = <<>>
            /\ UNCHANGED <<now, intervalId, timers, lastMode, listeners, prevTick, table, faulted>>
       ELSE /\ \E id \in 1..MaxTimers : id \notin timers
            /\ tick
            /\ IF getCurrentPeriod(getMinutes(now), getSeconds(now)) = InvalidTimeState
               THEN UNCHANGED <<intervalId, timers>>
               ELSE /\ intervalId' = freshId
                    /\ timers' = timers \cup {freshId}
            /\ UNCHANGED <<now, listeners, table>>

\* stop() clearing the interval and keeping its id in intervalId.
stop_keepsId ==
    /\ lastOp' = "stop"
    /\ IF intervalId # null
       THEN /\ timers' = timers \ {intervalId}
            /\ intervalId' = intervalId
       ELSE UNCHANGED <<intervalId, timers>>
    /\ emitted' = <<>>
    /\ delivered' = <<>>
    /\ sinceStop' = TRUE
    /\ UNCHANGED <<now, lastMode, listeners, prevTick, sinceStart, table, faulted>>

\* TimeController.stop
stop ==
    /\ lastOp' = "stop"
    /\ IF intervalId # null
       THEN /\ timers' = timers \ {intervalId}
            /\ intervalId' = null
       ELSE UNCHANGED <<intervalId, timers>>
    /\ emitted' = <<>>
    /\ delivered' = <<>>
    /\ sinceStop' = TRUE
    /\ UNCHANGED <<now, lastMode, listeners, prevTick, sinceStart, table, faulted>>

\* destroy() that stops the interval and keeps the listeners.
destroy_keepsListeners ==
    /\ lastOp' = "destroy"
    /\ IF intervalId # null
       THEN /\ timers' = timers \ {intervalId}
            /\ intervalId' = null
       ELSE UNCHANGED <<intervalId, timers>>
    /\ emitted' = <<>>
    /\ delivered' = <<>>
    /\ sinceStart' = FALSE
    /\ sinceStop' = TRUE
    /\ UNCHANGED <<now, lastMode, prevTick, listeners, table, faulted>>

\* TimeController.destroy: stop(), then removeAllListeners()
destroy ==
    /\ lastOp' = "destroy"
    /\ IF intervalId # null
       THEN /\ timers' = timers \ {intervalId}
            /\ intervalId' = null
       ELSE UNCHANGED <<intervalId, timers>>
    /\ listeners' = {}
    /\ emitted' = <<>>
    /\ delivered' = <<>>
    /\ sinceStart' = FALSE
    /\ sinceStop' = TRUE
    /\ UNCHANGED <<now, lastMode, prevTick, table, faulted>>

\* The callback of setInterval in start(): an armed interval fires.
intervalFire ==
    /\ \E id \in timers : TRUE
    /\ lastOp' = "interval"
    /\ tick
    /\ UNCHANGED <<now, intervalId, timers, listeners, sinceStart, sinceStop, table>>

\* A 'resume' listener that recomputes only while no interval is armed.
resume_onlyIdle ==
    /\ lastOp' = "resume"
    /\ IF intervalId # null
       THEN /\ emitted' = <<>>
            /\ delivered' = <<>>
            /\ UNCHANGED <<lastMode, prevTick, faulted>>
       ELSE tick
    /\ UNCHANGED <<now, intervalId, timers, listeners, sinceStart, sinceStop, table>>

\* The powerMonitor 'resume' listener the constructor registers.
resume ==
    /\ lastOp' = "resume"
    /\ tick
    /\ UNCHANGED <<now, intervalId, timers, listeners, sinceStart, sinceStop, table>>

\* EventEmitter.on, as createApp registers the tick and period-change listeners
on(name) ==
    /\ lastOp' = "on"
    /\ listeners' = listeners \cup {name}
    /\ emitted' = <<>>
    /\ delivered' = <<>>
    /\ UNCHANGED <<now, intervalId, timers, lastMode, prevTick, sinceStart, sinceStop, table, faulted>>

\* The wall clock moves on, by a second or by a longer sleep.
clockAdvance(d) ==
    /\ lastOp' = "clock"
    /\ now' = (now + d) % 3600
    /\ emitted' = <<>>
    /\ delivered' = <<>>
    /\ UNCHANGED <<intervalId, timers, lastMode, listeners, prevTick, sinceStart, sinceStop, table, faulted>>

\* DEFAULT_SETTINGS, scale and opacity in hundredths
DEFAULT_SETTINGS ==
    [window |-> [x |-> 100, y |-> 100, scale |-> 100, opacity |-> 100],
     character |-> "augustine-of-hippo",
     launchAtStartup |-> FALSE,
     showInDock |-> FALSE]

\* AVAILABLE_CHARACTERS
AVAILABLE_CHARACTERS == <<"augustine-of-hippo", "thomas-aquinas", "saint-patrick">>

\* No renderer: no window was created or the window is gone.
noRenderer ==
    [loaded |-> "none", currentMode |-> "work",
     currentCharacter |-> "augustine-of-hippo",
     className |-> "html", image |-> <<"html", "html">>, reply |-> "none"]

\* No SettingsManager call was made and no menu window was created.
noParts ==
    /\ args = <<>>
    /\ returned = ""
    /\ menuWindow = null
    /\ menuWindows = <<>>
    /\ menuIPC = TRUE
    /\ refreshes = 0

\* The window manager, the store and the renderer before createApp.
noUi ==
    /\ scale = DEFAULT_SETTINGS.window.scale
    /\ settings = DEFAULT_SETTINGS
    /\ currentScale = DEFAULT_SETTINGS.window.scale
    /\ isVisible = FALSE
    /\ renderer = noRenderer
    /\ inflight = <<>>
    /\ actions = 0
    /\ noParts

\* The state after new TimeController(), at any time of the hour.
newTimeController ==
    /\ intervalId = null
    /\ timers = {}
    /\ lastMode = "null"
    /\ listeners = {}
    /\ emitted = <<>>
    /\ delivered = <<>>
    /\ lastOp = "new"
    /\ prevTick = "null"
    /\ sinceStart = FALSE
    /\ sinceStop = FALSE
    /\ faulted = FALSE

\* No application: the timer is used on its own.
noApp ==
    /\ phase = "none"
    /\ platform = "other"
    /\ window = "null"
    /\ currentMode = "work"
    /\ sent = <<>>
    /\ countdown = "25:00"
    /\ lastSent = "none"
    /\ elapsed = 0
    /\ noUi

Init ==
    /\ now \in 0..3599
    /\ table = POMODORO_SEGMENTS
    /\ newTimeController
    /\ noApp

\* What a call that does not reach the window leaves of the application:
\* it sends nothing (the TimeController, the SettingsManager and the
\* CustomMenuManager have no webContents.send), and nothing else moves.
sendsNothing ==
    /\ sent' = <<>>
    /\ UNCHANGED <<phase, platform, window, currentMode, countdown, lastSent, elapsed>>

\* The steps of the timer used on its own.
Start == start /\ sendsNothing /\ UNCHANGED <<uiVars, partVars>>
Stop == stop /\ sendsNothing /\ UNCHANGED <<uiVars, partVars>>
Destroy == destroy /\ sendsNothing /\ UNCHANGED <<uiVars, partVars>>
IntervalFire == intervalFire /\ sendsNothing /\ UNCHANGED <<uiVars, partVars>>
Resume == resume /\ sendsNothing /\ UNCHANGED <<uiVars, partVars>>
On(name) == on(name) /\ sendsNothing /\ UNCHANGED <<uiVars, partVars>>
ClockAdvance(d) == clockAdvance(d) /\ sendsNothing /\ UNCHANGED <<uiVars, partVars>>

Next ==
    \/ Start
    \/ Stop
    \/ Destroy
    \/ IntervalFire
    \/ Resume
    \/ \E name \in {"tick", "period-change"} : On(name)
    \/ \E d \in {1, MaxSleep} : ClockAdvance(d)

Spec == Init /\ [][Next]_vars

\* A table without the last segment, so that minutes 55 to 59 are in none.
\* The program has no such table: it stands for the case getCurrentPeriod
\* guards against with its throw, which the fixed table never takes.
MalformedTable == SubSeq(POMODORO_SEGMENTS, 1, Len(POMODORO_SEGMENTS) - 1)

\* The timer on its own, over the fixed table or over the malformed one:
\* the second is there to take the throw of getCurrentPeriod, and what holds
\* over both holds over the fixed table.
InitFault ==
    /\ now \in 0..3599
    /\ table \in {POMODORO_SEGMENTS, MalformedTable}
    /\ newTimeController
    /\ noApp

NextFault ==
    \/ Start
    \/ Stop
    \/ Destroy
    \/ IntervalFire
    \/ Resume
    \/ \E d \in {1, MaxSleep} : ClockAdvance(d)

SpecFault == InitFault /\ [][NextFault]_vars

\* ------------------------------------------------------- the application

\* String.prototype.padStart(targetLength, padString)
RECURSIVE padStart(_, _, _)
padStart(str, targetLength, padString) ==
    IF Len(str) >= targetLength THEN str
    ELSE padStart(padString \o str, targetLength, padString)

\* formatTime counting a started minute as a whole one.
formatTime_ceilMinutes(seconds) ==
    LET mins == (seconds + 59) \div 60
        secs == seconds % 60
    IN padStart(ToString(mins), 2, "0") \o ":" \o padStart(ToString(secs), 2, "0")

\* formatTime padding the minutes alone.
formatTime_secondsUnpadded(seconds) ==
    LET mins == seconds \div 60
        secs == seconds % 60
    IN padStart(ToString(mins), 2, "0") \o ":" \o ToString(secs)

\* TimeController.formatTime
formatTime(seconds) ==
    LET mins == seconds \div 60
        secs == seconds % 60
    IN padStart(ToString(mins), 2, "0") \o ":" \o padStart(ToString(secs), 2, "0")

\* formatTime(state.remaining) for the state getCurrentPeriod() returns now.
FormatTime ==
    LET state == getCurrentPeriod(getMinutes(now), getSeconds(now)) IN
    /\ state # InvalidTimeState
    /\ lastOp' = "formatTime"
    /\ args' = <<state.remaining>>
    /\ returned' = formatTime(state.remaining)
    /\ emitted' = <<>>
    /\ delivered' = <<>>
    /\ UNCHANGED <<now, intervalId, timers, lastMode, listeners, prevTick,
                   sinceStart, sinceStop, table, faulted>>
    /\ sendsNothing
    /\ UNCHANGED <<uiVars, menuWindow, menuWindows, menuIPC, refreshes>>

\* A TimeController asked for the countdown at any second of the hour.
SpecFormat == Init /\ [][FormatTime]_vars

\* The events createApp has a listener for (part_002:48 and 58).
appListeners == {"tick", "period-change"}

\* WindowManager.sendTimeUpdate: the message for the renderer
sendTimeUpdate(state, formattedTime) ==
    [channel |-> "time-update", type |-> state.type, remaining |-> state.remaining,
     formattedTime |-> formattedTime]

\* WindowManager.updateCharacterMode: the message for the renderer
updateCharacterMode(mode) == [channel |-> "period-change", mode |-> mode]

\* renderer.ts updateMode after currentMode is set: the image of the current
\* character in that mode and the body's class.
updateMode(r, mode) ==
    [r EXCEPT !.image = <<r.currentCharacter, r.currentMode>>, !.className = mode]

\* A renderer whose time-update listener shows the countdown alone.
rendererOn_countdownOnly(r, m) ==
    IF m.channel = "time-update"
    THEN r
    ELSE IF m.channel = "period-change"
    THEN updateMode([r EXCEPT !.currentMode = m.mode], m.mode)
    ELSE IF m.channel = "character-change"
    THEN LET q == [r EXCEPT !.currentCharacter = m.character]
         IN [q EXCEPT !.image = <<q.currentCharacter, q.currentMode>>]
    ELSE r

\* The renderer's listener for one message from the main process.
rendererOn(r, m) ==
    IF m.channel = "time-update"
    THEN IF m.type # r.currentMode
         THEN updateMode([r EXCEPT !.currentMode = m.type], m.type)
         ELSE r
    ELSE IF m.channel = "period-change"
    THEN updateMode([r EXCEPT !.currentMode = m.mode], m.mode)
    ELSE IF m.channel = "character-change"
    THEN LET q == [r EXCEPT !.currentCharacter = m.character]
         IN [q EXCEPT !.image = <<q.currentCharacter, q.currentMode>>]
    ELSE r

\* webContents.send: the messages join those on their way to the renderer,
\* which receives them later.
send(msgs) ==
    /\ Len(inflight) + Len(msgs) <= MaxInflight
    /\ inflight' = inflight \o msgs
    /\ UNCHANGED renderer

\* createApp as the main process has it: the SettingsManager, the
\* WindowManager with the stored scale and its window, a new TimeController;
\* then new TrayManager(trayIconPath, windowManager) leaves the tray manager
\* without its SettingsManager, and createTray throws a TypeError when
\* updateContextMenu reads this.settingsManager.getCharacter(). No IPC
\* handler and no listener of the TimeController is registered, start() is
\* not called, the tray has no menu.
createApp ==
    /\ lastOp' = "createApp"
    /\ window' = "open"
    /\ scale' = settings.window.scale
    /\ isVisible' = TRUE
    /\ renderer' = [noRenderer EXCEPT !.loaded = "loading"]
    /\ inflight' = <<>>
    /\ emitted' = <<>>
    /\ delivered' = <<>>
    /\ sent' = <<>>
    /\ UNCHANGED <<now, intervalId, timers, lastMode, listeners, prevTick,
                   sinceStart, sinceStop, table, faulted>>
    /\ UNCHANGED <<platform, currentMode, countdown, lastSent, elapsed>>
    /\ UNCHANGED <<settings, currentScale, actions, partVars>>

\* app.whenReady().then(...): createApp throws, and the callback ends before
\* it registers app.on('activate').
appReady ==
    /\ phase = "launching"
    /\ createApp
    /\ phase' = "threw"

\* The main process is up: the callback of whenReady has run, createApp
\* has thrown.
running == phase = "threw"

\* app.on('before-quit'): destroy the timer, the window and the tray
beforeQuit ==
    /\ destroy
    /\ window' = "null"
    /\ sent' = <<>>
    /\ phase' = "quit"
    /\ isVisible' = FALSE
    /\ renderer' = noRenderer
    /\ inflight' = <<>>
    /\ UNCHANGED <<platform, currentMode, countdown, lastSent, elapsed>>
    /\ UNCHANGED <<scale, settings, currentScale, actions, partVars>>

\* The 'closed' handler of the character window: this.window = null. The
\* renderer and the messages on their way to it go with the window.
closed ==
    /\ window' = "null"
    /\ lastOp' = "closed"
    /\ emitted' = <<>>
    /\ delivered' = <<>>
    /\ sent' = <<>>
    /\ isVisible' = FALSE
    /\ renderer' = noRenderer
    /\ inflight' = <<>>
    /\ UNCHANGED <<now, intervalId, timers, lastMode, listeners, prevTick,
                   sinceStart, sinceStop, table, faulted, phase, platform,
                   currentMode, countdown, lastSent, elapsed>>
    /\ UNCHANGED <<scale, settings, currentScale, actions, partVars>>

\* The character window is closed; with no window left the application quits,
\* except on macOS (window-all-closed).
windowClosed ==
    /\ running
    /\ window = "open"
    /\ IF platform # "darwin" THEN beforeQuit ELSE closed

\* app.quit(), asked for by the platform (the tray has no menu)
appQuit ==
    /\ running
    /\ beforeQuit

\* The resume signal reaches the TimeController, which has no listener.
appResume ==
    /\ running
    /\ resume
    /\ sent' = <<>>
    /\ UNCHANGED <<phase, platform, window, currentMode, countdown, lastSent,
                   elapsed>>
    /\ UNCHANGED <<uiVars, partVars>>

\* The wall clock moves by d seconds, whether or not a callback ran in
\* between; elapsed counts the moves.
clockMove(d) ==
    /\ elapsed < MaxElapsed
    /\ clockAdvance(d)
    /\ elapsed' = elapsed + 1
    /\ sent' = <<>>
    /\ UNCHANGED <<phase, platform, window, currentMode, countdown, lastSent>>
    /\ UNCHANGED <<uiVars, partVars>>

\* The clock of the launched application.
appClock(d) ==
    /\ running
    /\ clockMove(d)

\* WindowManager.setScale: Math.max(0.5, Math.min(3.0, scale)), in hundredths
setScale(s) ==
    LET min == IF s < 300 THEN s ELSE 300
    IN IF min > 50 THEN min ELSE 50

\* WindowManager.toggleWindow and hideWindow: only a window that exists
toggleWindow(win, vis) == IF win = "open" THEN ~vis ELSE vis
hideWindow(win, vis) == IF win = "open" THEN FALSE ELSE vis

\* WindowManager.updateCharacter: the message for the renderer, if there is
\* a window
updateCharacter(character, win) ==
    IF win = "open"
    THEN <<[channel |-> "character-change", character |-> character]>>
    ELSE <<>>

\* The object { ...a, ...b }: the keys of both, the values of b first.
spread(a, b) ==
    [k \in DOMAIN a \cup DOMAIN b |-> IF k \in DOMAIN b THEN b[k] ELSE a[k]]

\* SettingsManager.saveScale: the stored window with the scale replaced
saveScale(st, s) == [st EXCEPT !.window = spread(st.window, [scale |-> s])]

\* SettingsManager.saveCharacter
saveCharacter(st, character) == [st EXCEPT !.character = character]

\* SettingsManager.savePosition: the stored window with x and y replaced
savePosition(st, x, y) ==
    [st EXCEPT !.window = spread(st.window, [x |-> x, y |-> y])]

\* SettingsManager.saveOpacity: the stored window with the opacity replaced
saveOpacity(st, opacity) ==
    [st EXCEPT !.window = spread(st.window, [opacity |-> opacity])]

\* The value of a key that is there without a value. In the window object
\* given to saveSettings a key holds <<v>> for the number v, or undefined.
undefined == <<>>

\* An object of numbers as a window object given to saveSettings has it.
given(obj) == [k \in DOMAIN obj |-> <<obj[k]>>]

\* store.set(key, obj) as the store keeps it: the file is JSON, which has no
\* key whose value is undefined.
stored(obj) == [k \in {j \in DOMAIN obj : obj[j] # undefined} |-> obj[k][1]]

\* A saveSettings that stores the window object it is given as it is.
saveSettings_replacesWindow(st, partial) ==
    LET has(k) == k \in DOMAIN partial
        s1 == IF has("window") THEN [st EXCEPT !.window = stored(partial.window)]
              ELSE st
        s2 == IF has("character")
              THEN [s1 EXCEPT !.character = partial.character] ELSE s1
        s3 == IF has("launchAtStartup")
              THEN [s2 EXCEPT !.launchAtStartup = partial.launchAtStartup] ELSE s2
    IN IF has("showInDock")
       THEN [s3 EXCEPT !.showInDock = partial.showInDock] ELSE s3

\* SettingsManager.saveSettings: the keys of a window object are spread over
\* the stored window, a key that is undefined like any other, and the result
\* is stored; character, launchAtStartup and showInDock are set when they
\* are not undefined (at the top level a key that is undefined is modelled
\* as a key not there, which the test !== undefined treats alike).
saveSettings(st, partial) ==
    LET has(k) == k \in DOMAIN partial
        s1 == IF has("window")
              THEN [st EXCEPT !.window =
                        stored(spread(given(st.window), partial.window))]
              ELSE st
        s2 == IF has("character")
              THEN [s1 EXCEPT !.character = partial.character] ELSE s1
        s3 == IF has("launchAtStartup")
              THEN [s2 EXCEPT !.launchAtStartup = partial.launchAtStartup] ELSE s2
    IN IF has("showInDock")
       THEN [s3 EXCEPT !.showInDock = partial.showInDock] ELSE s3

\* Array.prototype.indexOf, counted from 0; -1 when absent
indexOf(array, e) ==
    IF \E i \in 1..Len(array) : array[i] = e
    THEN (CHOOSE i \in 1..Len(array) :
            array[i] = e /\ \A j \in 1..(i - 1) : array[j] # e) - 1
    ELSE -1

\* cycleCharacter staying on the last character instead of wrapping.
nextCharacter_noWrap(currentCharacter) ==
    LET currentIndex == indexOf(AVAILABLE_CHARACTERS, currentCharacter)
        nextIndex == IF currentIndex + 1 < Len(AVAILABLE_CHARACTERS)
                     THEN currentIndex + 1 ELSE currentIndex
    IN AVAILABLE_CHARACTERS[nextIndex + 1]

\* The character cycleCharacter and the menu's next-character go to.
nextCharacter(currentCharacter) ==
    LET currentIndex == indexOf(AVAILABLE_CHARACTERS, currentCharacter)
        nextIndex == (currentIndex + 1) % Len(AVAILABLE_CHARACTERS)
    IN AVAILABLE_CHARACTERS[nextIndex + 1]

\* A handler that also stops the timer.
handled_stopsTimer(op, msgs) ==
    /\ actions < MaxActions
    /\ actions' = actions + 1
    /\ UNCHANGED <<args, returned, menuWindow, menuWindows, menuIPC>>
    /\ lastOp' = op
    /\ emitted' = <<>>
    /\ delivered' = <<>>
    /\ sent' = msgs
    /\ send(msgs)
    /\ intervalId' = null
    /\ timers' = timers \ {intervalId}
    /\ UNCHANGED <<now, lastMode, listeners, prevTick, sinceStart,
                   sinceStop, table, faulted, phase, platform, window,
                   currentMode, countdown, lastSent, elapsed>>

\* What every menu and IPC handler has in common: it sends msgs to the
\* window and has no call into the TimeController.
handled(op, msgs) ==
    /\ actions < MaxActions
    /\ actions' = actions + 1
    /\ UNCHANGED <<args, returned, menuWindow, menuWindows, menuIPC>>
    /\ lastOp' = op
    /\ emitted' = <<>>
    /\ delivered' = <<>>
    /\ sent' = msgs
    /\ send(msgs)
    /\ UNCHANGED <<now, intervalId, timers, lastMode, listeners, prevTick, sinceStart,
                   sinceStop, table, faulted, phase, platform, window,
                   currentMode, countdown, lastSent, elapsed>>

\* Tray menu, Show/Hide Character: toggleWindow, and a rebuild of the menu
\* is set to run 100 ms later.
trayToggle ==
    /\ handled("tray:toggle-character", <<>>)
    /\ isVisible' = toggleWindow(window, isVisible)
    /\ refreshes' = refreshes + 1
    /\ UNCHANGED <<scale, settings, currentScale>>

\* The rebuild that Show/Hide Character deferred: updateContextMenu reads
\* the window manager's scale again.
trayRefresh ==
    /\ refreshes > 0
    /\ refreshes' = refreshes - 1
    /\ currentScale' = scale
    /\ lastOp' = "tray:refresh"
    /\ emitted' = <<>>
    /\ delivered' = <<>>
    /\ sent' = <<>>
    /\ UNCHANGED <<now, intervalId, timers, lastMode, listeners, prevTick, sinceStart,
                   sinceStop, table, faulted, phase, platform, window,
                   currentMode, countdown, lastSent, elapsed>>
    /\ UNCHANGED <<scale, settings, isVisible, renderer, inflight, actions>>
    /\ UNCHANGED <<args, returned, menuWindow, menuWindows, menuIPC>>

\* Tray menu, Increase Size (d = 10) and Decrease Size (d = -10): the new
\* scale is counted from the scale the menu captured when it was built; the
\* window manager clamps it, the settings store it as it is, and the menu is
\* built again.
traySize(d) ==
    LET newScale == currentScale + d IN
    /\ handled(IF d > 0 THEN "tray:increase-size" ELSE "tray:decrease-size", <<>>)
    /\ scale' = setScale(newScale)
    /\ settings' = saveScale(settings, newScale)
    /\ currentScale' = setScale(newScale)
    /\ UNCHANGED <<isVisible, refreshes>>

\* Tray menu, Next Character: cycleCharacter, then the menu is built again
trayNextCharacter ==
    LET next == nextCharacter(settings.character) IN
    /\ handled("tray:next-character", updateCharacter(next, window))
    /\ settings' = saveCharacter(settings, next)
    /\ currentScale' = scale
    /\ UNCHANGED <<scale, isVisible, refreshes>>

\* CustomMenuManager.handleAction, but for quit; it runs as the listener of
\* MENU_ACTION that setupIPC registered.
handleAction(type) ==
    /\ menuIPC
    /\ UNCHANGED refreshes
    /\ IF type = "toggle-character"
       THEN /\ handled("menu:toggle-character", <<>>)
            /\ isVisible' = toggleWindow(window, isVisible)
            /\ UNCHANGED <<scale, settings, currentScale>>
       ELSE IF type \in {"increase-size", "decrease-size"}
       THEN LET newScale == IF type = "increase-size" THEN scale + 10 ELSE scale - 10 IN
            /\ handled("menu:" \o type, <<>>)
            /\ scale' = setScale(newScale)
            /\ settings' = saveScale(settings, newScale)
            /\ UNCHANGED <<currentScale, isVisible>>
       ELSE LET next == nextCharacter(settings.character) IN
            /\ type = "next-character"
            /\ handled("menu:next-character", updateCharacter(next, window))
            /\ settings' = saveCharacter(settings, next)
            /\ UNCHANGED <<scale, currentScale, isVisible>>

\* registerIPCHandlers: hide-window
ipcHideWindow ==
    /\ window = "open"
    /\ handled("ipc:hide-window", <<>>)
    /\ isVisible' = hideWindow(window, isVisible)
    /\ UNCHANGED <<scale, settings, currentScale, refreshes>>

\* registerIPCHandlers: save-position
ipcSavePosition(x, y) ==
    /\ window = "open"
    /\ handled("ipc:save-position", <<>>)
    /\ settings' = savePosition(settings, x, y)
    /\ UNCHANGED <<scale, currentScale, isVisible, refreshes>>

\* registerIPCHandlers: get-settings. The renderer asks once, in init(), and
\* the handler answers with the settings as they are stored when it runs;
\* the answer is what the renderer goes on with.
ipcGetSettings ==
    /\ window = "open"
    /\ renderer.loaded = "listening"
    /\ renderer.reply = "none"
    /\ actions < MaxActions
    /\ actions' = actions + 1
    /\ renderer' = [renderer EXCEPT !.reply = settings.character]
    /\ lastOp' = "ipc:get-settings"
    /\ emitted' = <<>>
    /\ delivered' = <<>>
    /\ sent' = <<>>
    /\ UNCHANGED <<now, intervalId, timers, lastMode, listeners, prevTick, sinceStart,
                   sinceStop, table, faulted, phase, platform, window,
                   currentMode, countdown, lastSent, elapsed>>
    /\ UNCHANGED <<scale, settings, currentScale, isVisible, inflight, partVars>>

\* registerIPCHandlers: save-settings
ipcSaveSettings(partial) ==
    /\ window = "open"
    /\ handled("ipc:save-settings", <<>>)
    /\ settings' = saveSettings(settings, partial)
    /\ UNCHANGED <<scale, currentScale, isVisible, refreshes>>

\* The renderer's script has run up to the await in init(): its listeners
\* are registered, the page is as index.html has it.
rendererLoad ==
    /\ window = "open"
    /\ renderer.loaded = "loading"
    /\ renderer' = [renderer EXCEPT !.loaded = "listening"]
    /\ UNCHANGED inflight
    /\ lastOp' = "renderer:load"
    /\ emitted' = <<>>
    /\ delivered' = <<>>
    /\ sent' = <<>>
    /\ UNCHANGED <<now, intervalId, timers, lastMode, listeners, prevTick, sinceStart,
                   sinceStop, table, faulted, phase, platform, window,
                   currentMode, countdown, lastSent, elapsed>>
    /\ UNCHANGED <<scale, settings, currentScale, isVisible, actions, partVars>>

\* init() goes on after the get-settings handler has answered: the
\* character of the answer, then updateMode.
rendererInit ==
    /\ window = "open"
    /\ renderer.loaded = "listening"
    /\ renderer.reply # "none"
    /\ renderer' = updateMode([renderer EXCEPT !.loaded = "ready",
                                               !.currentCharacter = renderer.reply],
                              renderer.currentMode)
    /\ UNCHANGED inflight
    /\ lastOp' = "renderer:init"
    /\ emitted' = <<>>
    /\ delivered' = <<>>
    /\ sent' = <<>>
    /\ UNCHANGED <<now, intervalId, timers, lastMode, listeners, prevTick, sinceStart,
                   sinceStop, table, faulted, phase, platform, window,
                   currentMode, countdown, lastSent, elapsed>>
    /\ UNCHANGED <<scale, settings, currentScale, isVisible, actions, partVars>>

\* A message arrives at the renderer: the listener of its channel runs, if
\* the script has registered it; before that the message is lost.
rendererOnMessage ==
    /\ window = "open"
    /\ inflight # <<>>
    /\ renderer' = IF renderer.loaded \in {"listening", "ready"}
                   THEN rendererOn(renderer, Head(inflight))
                   ELSE renderer
    /\ inflight' = Tail(inflight)
    /\ lastOp' = "renderer:message"
    /\ emitted' = <<>>
    /\ delivered' = <<>>
    /\ sent' = <<>>
    /\ UNCHANGED <<now, intervalId, timers, lastMode, listeners, prevTick, sinceStart,
                   sinceStop, table, faulted, phase, platform, window,
                   currentMode, countdown, lastSent, elapsed>>
    /\ UNCHANGED <<scale, settings, currentScale, isVisible, actions, partVars>>

\* One call of a method of the WindowManager or the TrayManager: msgs go to
\* the window, the TimeController is not involved.
called(op, msgs) ==
    /\ lastOp' = op
    /\ emitted' = <<>>
    /\ delivered' = <<>>
    /\ sent' = msgs
    /\ send(msgs)
    /\ UNCHANGED <<now, intervalId, timers, lastMode, listeners, prevTick,
                   sinceStart, sinceStop, table, faulted, phase, platform,
                   window, elapsed>>
    /\ UNCHANGED <<scale, settings, isVisible, actions, partVars>>

\* WindowManager.sendTimeUpdate(state, formattedTime), called with the state
\* and the countdown of the current second: sent if there is a window.
SendTimeUpdate ==
    LET state == getCurrentPeriod(getMinutes(now), getSeconds(now))
        formattedTime == formatTime(state.remaining)
    IN /\ state # InvalidTimeState
       /\ called("sendTimeUpdate",
                 IF window = "open" THEN <<sendTimeUpdate(state, formattedTime)>>
                 ELSE <<>>)
       /\ lastSent' = IF window = "open" THEN formattedTime ELSE lastSent
       /\ UNCHANGED <<currentMode, countdown, currentScale>>

\* WindowManager.updateCharacterMode(mode): the mode is kept, and sent if
\* there is a window.
UpdateCharacterMode(mode) ==
    /\ called("updateCharacterMode",
              IF window = "open" THEN <<updateCharacterMode(mode)>> ELSE <<>>)
    /\ currentMode' = mode
    /\ UNCHANGED <<countdown, lastSent, currentScale>>

\* TrayManager.updateCountdown(countdown), called with the countdown of the
\* current second on a tray that was created: the countdown is kept and the
\* menu is built again, its click handlers capturing the scale of now.
UpdateCountdown ==
    LET state == getCurrentPeriod(getMinutes(now), getSeconds(now)) IN
    /\ state # InvalidTimeState
    /\ called("updateCountdown", <<>>)
    /\ countdown' = formatTime(state.remaining)
    /\ currentScale' = scale
    /\ UNCHANGED <<currentMode, lastSent>>

\* The character window of a WindowManager on its own is closed.
Closed ==
    /\ window = "open"
    /\ closed

\* The seconds of the hour the application is launched at.
AppStartTimes == {0, 630, 1498, 1499, 1799, 3299, 3598, 3599}

\* The application before app.whenReady() resolves.
InitApp ==
    /\ now \in AppStartTimes
    /\ table = POMODORO_SEGMENTS
    /\ newTimeController
    /\ phase = "launching"
    /\ platform \in {"darwin", "other"}
    /\ window = "null"
    /\ currentMode = "work"
    /\ sent = <<>>
    /\ countdown = "25:00"
    /\ lastSent = "none"
    /\ elapsed = 0
    /\ noUi

\* The application as the main process has it: after the launch the window
\* and its renderer, the resume signal, the clock, the close of the window
\* and the quit. init() of the renderer ends at getSettings, which has no
\* handler.
NextApp ==
    \/ appReady
    \/ windowClosed
    \/ appQuit
    \/ appResume
    \/ \E d \in {1, MaxSleep} : appClock(d)
    \/ rendererLoad

SpecApp == InitApp /\ [][NextApp]_vars

\* What the settings store can hold: a scale of the range, a character of
\* the roster or one of another version's roster.
StoredSettings ==
    {[DEFAULT_SETTINGS EXCEPT !.window.scale = s, !.character = c] :
        s \in {50, 100, 200, 300},
        c \in {"augustine-of-hippo", "saint-patrick", "thomas-more"}}

\* The managers on their own, constructed as their constructors declare: a
\* SettingsManager over a store, a WindowManager given the stored scale with
\* its window created, a TrayManager given both with its tray created, the
\* IPC handlers registered for the two, and a new TimeController.
managers ==
    /\ table = POMODORO_SEGMENTS
    /\ newTimeController
    /\ phase = "none"
    /\ platform = "other"
    /\ window = "open"
    /\ currentMode = "work"
    /\ sent = <<>>
    /\ countdown = "25:00"
    /\ lastSent = "none"
    /\ elapsed = 0
    /\ scale = settings.window.scale
    /\ currentScale = settings.window.scale
    /\ isVisible = TRUE
    /\ renderer = [noRenderer EXCEPT !.loaded = "loading"]
    /\ inflight = <<>>
    /\ actions = 0
    /\ noParts

\* A WindowManager with its window, at a second around a segment boundary.
InitWindow ==
    /\ now \in AppStartTimes
    /\ settings = DEFAULT_SETTINGS
    /\ managers

\* The WindowManager and the renderer of its window: the calls that send
\* to the window, the renderer's script and listeners, the clock, the close
\* of the window.
NextWindow ==
    \/ SendTimeUpdate
    \/ \E mode \in {"work", "rest"} : UpdateCharacterMode(mode)
    \/ Closed
    \/ \E d \in {1, MaxSleep} : clockMove(d)
    \/ rendererLoad
    \/ ipcGetSettings
    \/ rendererInit
    \/ rendererOnMessage

SpecWindow == InitWindow /\ [][NextWindow]_vars

\* A TimeController on its own, at a second around a segment boundary.
InitLive ==
    /\ now \in AppStartTimes
    /\ table = POMODORO_SEGMENTS
    /\ newTimeController
    /\ noApp

\* Its life while it is neither stopped nor destroyed: listeners are
\* registered, it is started, its interval fires, the resume signal comes,
\* the clock moves.
NextLive ==
    \/ \E name \in {"tick", "period-change"} : On(name)
    \/ Start
    \/ IntervalFire
    \/ Resume
    \/ \E d \in {1, MaxSleep} : clockMove(d)

\* setInterval keeps calling back while the interval is armed.
SpecLive ==
    /\ InitLive
    /\ [][NextLive]_vars
    /\ WF_vars(IntervalFire)

\* The seconds of the hour the managers are used at: the last second of a
\* work segment and the middle of a rest segment.
UiStartTimes == {24 * 60 + 59, 27 * 60}

\* What the renderer can ask to be saved.
PartialSettings ==
    {[character |-> "thomas-aquinas"],
     [window |-> [x |-> <<0>>, y |-> <<0>>]]}

\* The managers over any store.
InitUi ==
    /\ now \in UiStartTimes
    /\ settings \in StoredSettings
    /\ managers

\* The tray menu, the custom menu's actions and the IPC requests, with the
\* TimeController started and firing, the tray given the countdown, the
\* renderer and the close of the window.
NextUi ==
    \/ Start
    \/ IntervalFire
    \/ UpdateCountdown
    \/ Closed
    \/ rendererLoad
    \/ rendererInit
    \/ rendererOnMessage
    \/ trayToggle
    \/ trayRefresh
    \/ \E d \in {10, -10} : traySize(d)
    \/ trayNextCharacter
    \/ \E type \in {"toggle-character", "increase-size", "decrease-size",
                    "next-character"} : handleAction(type)
    \/ ipcHideWindow
    \/ ipcSavePosition(0, 0)
    \/ ipcGetSettings
    \/ \E partial \in PartialSettings : ipcSaveSettings(partial)

SpecUi == InitUi /\ [][NextUi]_vars

\* ------------------------------------------------ the SettingsManager

\* One call of a SettingsManager method: the store becomes st, nothing else
\* moves.
settingsCall(op, a, st) ==
    /\ lastOp' = op
    /\ args' = a
    /\ settings' = st
    /\ emitted' = <<>>
    /\ delivered' = <<>>
    /\ UNCHANGED <<now, intervalId, timers, lastMode, listeners, prevTick,
                   sinceStart, sinceStop, table, faulted>>
    /\ sendsNothing
    /\ UNCHANGED <<scale, currentScale, isVisible, renderer, inflight, actions>>
    /\ UNCHANGED <<returned, menuWindow, menuWindows, menuIPC, refreshes>>

SavePosition(x, y) ==
    settingsCall("savePosition", <<x, y>>, savePosition(settings, x, y))

SaveScale(s) == settingsCall("saveScale", <<s>>, saveScale(settings, s))

SaveOpacity(opacity) ==
    settingsCall("saveOpacity", <<opacity>>, saveOpacity(settings, opacity))

SaveCharacter(character) ==
    settingsCall("saveCharacter", <<character>>, saveCharacter(settings, character))

SaveSettings(partial) ==
    settingsCall("saveSettings", <<partial>>, saveSettings(settings, partial))

\* SettingsManager.reset: store.clear(), which leaves the defaults
Reset == settingsCall("reset", <<>>, DEFAULT_SETTINGS)

\* The partial objects saveSettings is called with: one key, two keys of the
\* window, a key of the window that is undefined, keys of both levels.
SettingsPartials ==
    {[character |-> "thomas-aquinas"],
     [window |-> [x |-> <<0>>]],
     [window |-> [scale |-> <<50>>, opacity |-> <<50>>]],
     [window |-> [scale |-> undefined, y |-> <<3>>]],
     [launchAtStartup |-> TRUE],
     [showInDock |-> TRUE, character |-> "saint-patrick"],
     [window |-> [y |-> <<0>>], launchAtStartup |-> FALSE]}

\* A SettingsManager over a new store, which holds the defaults.
InitSettings ==
    /\ now = 0
    /\ table = POMODORO_SEGMENTS
    /\ newTimeController
    /\ noApp

NextSettings ==
    \/ \E x \in {0, 40}, y \in {0, 100} : SavePosition(x, y)
    \/ \E s \in {50, 110} : SaveScale(s)
    \/ \E opacity \in {50, 100} : SaveOpacity(opacity)
    \/ \E character \in {"augustine-of-hippo", "saint-patrick"} :
          SaveCharacter(character)
    \/ \E partial \in SettingsPartials : SaveSettings(partial)
    \/ Reset

SpecSettings == InitSettings /\ [][NextSettings]_vars

\* ---------------------------------------------- the CustomMenuManager

\* A menu window is "loading" from its creation (show: false) until
\* ready-to-show, then "shown", or "hidden" when the handler showed no
\* window or another one; "closing" from close() until its 'closed' event,
\* then "destroyed".
MenuWindowStates == {"loading", "hidden", "shown", "closing", "destroyed"}

\* this.menuWindow && !this.menuWindow.isDestroyed()
menuWindowAlive ==
    /\ menuWindow # null
    /\ menuWindows[menuWindow] # "destroyed"

\* One step of the CustomMenuManager: nothing but its windows moves.
menuStep(op) ==
    /\ lastOp' = op
    /\ emitted' = <<>>
    /\ delivered' = <<>>
    /\ UNCHANGED <<now, intervalId, timers, lastMode, listeners, prevTick,
                   sinceStart, sinceStop, table, faulted>>
    /\ menuIPC' = (menuIPC /\ op # "destroy")
    /\ sendsNothing
    /\ UNCHANGED <<uiVars, args, returned, refreshes>>

\* CustomMenuManager.showMenu: focus the menu window there is, or create one
showMenu ==
    /\ menuStep("showMenu")
    /\ IF menuWindowAlive
       THEN UNCHANGED <<menuWindow, menuWindows>>
       ELSE /\ Len(menuWindows) < MaxMenus
            /\ menuWindows' = Append(menuWindows, "loading")
            /\ menuWindow' = Len(menuWindows) + 1

\* CustomMenuManager.hideMenu: close() the menu window and forget it. The
\* window's 'closed' event is emitted inside close() or after it returned;
\* in the first case the 'closed' handler has run when hideMenu assigns null.
hideMenu ==
    IF menuWindowAlive
    THEN /\ \E outcome \in {"closing", "destroyed"} :
              menuWindows' = [menuWindows EXCEPT ![menuWindow] = outcome]
         /\ menuWindow' = null
    ELSE UNCHANGED <<menuWindow, menuWindows>>

\* The menu page asks to be closed (MENU_CLOSE): the listener that setupIPC
\* registered, as long as destroy() has not removed it.
menuClose ==
    /\ menuIPC
    /\ menuStep("menu-close")
    /\ hideMenu

\* CustomMenuManager.destroy: hideMenu(), then the handler of MENU_GET_STATE
\* and the listeners of MENU_ACTION and MENU_CLOSE are removed.
menuDestroy ==
    /\ menuStep("destroy")
    /\ hideMenu

\* 'ready-to-show' of the window w, once: this.menuWindow?.show()
menuReadyToShow(w) ==
    /\ w \in 1..Len(menuWindows)
    /\ menuWindows[w] = "loading"
    /\ menuStep("ready-to-show")
    /\ menuWindows' =
          IF menuWindow = null THEN [menuWindows EXCEPT ![w] = "hidden"]
          ELSE IF menuWindow = w THEN [menuWindows EXCEPT ![w] = "shown"]
          ELSE [menuWindows EXCEPT ![w] = "hidden", ![menuWindow] = "shown"]
    /\ UNCHANGED menuWindow

\* 'blur' of the window w: hideMenu()
menuBlur(w) ==
    /\ w \in 1..Len(menuWindows)
    /\ menuWindows[w] \in {"shown", "closing"}
    /\ menuStep("blur")
    /\ hideMenu

\* 'closed' of the window w, whose close() has returned: the window is
\* destroyed and the handler forgets the manager's menu window.
menuClosed(w) ==
    /\ w \in 1..Len(menuWindows)
    /\ menuWindows[w] = "closing"
    /\ menuStep("menu-closed")
    /\ menuWindows' = [menuWindows EXCEPT ![w] = "destroyed"]
    /\ menuWindow' = null

\* A CustomMenuManager after its constructor.
InitMenu ==
    /\ now = 0
    /\ table = POMODORO_SEGMENTS
    /\ newTimeController
    /\ noApp

NextMenu ==
    \/ showMenu
    \/ menuClose
    \/ menuDestroy
    \/ \E w \in 1..MaxMenus : menuReadyToShow(w)
    \/ \E w \in 1..MaxMenus : menuBlur(w)
    \/ \E w \in 1..MaxMenus : menuClosed(w)

SpecMenu == InitMenu /\ [][NextMenu]_vars

\* ------------------------------------------------------------ properties

\* The operations that run one recompute cycle.
IsCycle(op) == op \in {"interval", "resume"}

HasPeriodChange(events) == \E i \in 1..Len(events) : events[i].name = "period-change"

\* The timetable as the documentation states it: work in [0,25) and [30,55),
\* rest in [25,30) and [55,60).
TimetableMode(m) == IF m < 25 \/ (m >= 30 /\ m < 55) THEN "work" ELSE "rest"
TimetableEnd(m) == IF m < 25 THEN 25 ELSE IF m < 30 THEN 30 ELSE IF m < 55 THEN 55 ELSE 60

\* The segments of the table that hold minute m.
Covering(m) ==
    {i \in 1..Len(POMODORO_SEGMENTS) :
        POMODORO_SEGMENTS[i].startMinute <= m /\ m < POMODORO_SEGMENTS[i].endMinute}

\* C1: at every minute m and second s, a recompute cycle reports the mode of
\* the one segment with startMinute <= m < endMinute and
\* remaining = endMinute*60 - (m*60 + s): work in [0,25) and [30,55), rest in
\* [25,30) and [55,60).
C1_PeriodOfSegment ==
    /\ IsCycle(lastOp) => emitted # <<>>
    /\ emitted # <<>> =>
        LET m == getMinutes(now)
            s == getSeconds(now)
        IN /\ emitted[1].name = "tick"
           /\ \E i \in Covering(m) :
                 /\ emitted[1].type = POMODORO_SEGMENTS[i].type
                 /\ emitted[1].remaining = POMODORO_SEGMENTS[i].endMinute * 60 - (m * 60 + s)
           /\ emitted[1].type = TimetableMode(m)
           /\ emitted[1].remaining = TimetableEnd(m) * 60 - (m * 60 + s)

\* A cycle ran in the last second of the first rest segment (xx:29:59).
C1_Witness ==
    /\ IsCycle(lastOp)
    /\ now = 29 * 60 + 59
    /\ emitted # <<>>
    /\ emitted[1] = [name |-> "tick", type |-> "rest", remaining |-> 1]

\* C2: every minute of the hour lies in exactly one segment of the table; the
\* segments follow one another from 0 to 60 with neither gap nor overlap.
C2_TableCoversHourOnce ==
    /\ Cardinality(Covering(getMinutes(now))) = 1
    /\ POMODORO_SEGMENTS[1].startMinute = 0
    /\ POMODORO_SEGMENTS[Len(POMODORO_SEGMENTS)].endMinute = 60
    /\ \A i \in 1..Len(POMODORO_SEGMENTS) :
          /\ POMODORO_SEGMENTS[i].startMinute < POMODORO_SEGMENTS[i].endMinute
          /\ i > 1 => POMODORO_SEGMENTS[i].startMinute = POMODORO_SEGMENTS[i - 1].endMinute

\* The clock stands in the minute two segments meet at (xx:30) and the lookup
\* took the later one.
C2_Witness ==
    /\ getMinutes(now) = 30
    /\ Covering(getMinutes(now)) = {3}
    /\ IsCycle(lastOp)
    /\ emitted # <<>>
    /\ emitted[1].type = "work"

\* C3: a recompute cycle emits period-change if and only if the mode it
\* computed differs from the mode of the tick emitted before it; with no
\* earlier tick, or with the same mode, it emits none.
C3_ModeChangedIffDiffers ==
    [][ emitted' # <<>> =>
          /\ emitted'[1].name = "tick"
          /\ HasPeriodChange(emitted') <=>
                (prevTick # "null" /\ prevTick # emitted'[1].type) ]_vars

\* A cycle that follows a work tick computed rest and emitted period-change.
C3_Witness ==
    /\ IsCycle(lastOp)
    /\ Len(emitted) = 2
    /\ emitted[2].name = "period-change"
    /\ emitted[2].type = "rest"
    /\ now = 25 * 60


\* A step of start() that moves the timer from Idle to Running.
StartsRunning == lastOp' = "start" /\ intervalId = null /\ intervalId' # null

\* C4 as claimed: the first tick of a start() that moves the timer from Idle
\* to Running never comes with a period-change event.
C4_FirstTickNeverChanges ==
    [][ StartsRunning => ~HasPeriodChange(emitted') ]_vars

\* C4 as amended: the first tick of such a start() comes with no
\* period-change event when no tick was emitted before it; when one was
\* (before a stop(), or by a resume signal while Idle) the period-change
\* event comes exactly if the mode differs from that tick's mode.
C4_FirstTickOfNewTimer ==
    [][ StartsRunning =>
          /\ Len(emitted') >= 1
          /\ emitted'[1].name = "tick"
          /\ prevTick = "null" => emitted' = <<emitted'[1]>>
          /\ prevTick # "null" =>
                (HasPeriodChange(emitted') <=> prevTick # emitted'[1].type) ]_vars

\* start() of a timer made at xx:25:00 with nothing done before: one tick.
C4_Witness ==
    /\ lastOp = "start"
    /\ intervalId # null
    /\ now = 25 * 60
    /\ emitted = <<[name |-> "tick", type |-> "rest", remaining |-> 300]>>

\* C5 as claimed: from the return of stop() until start() is called again no
\* event is emitted, whatever happens, a resume signal included.
C5_NothingAfterStop ==
    [][ (sinceStop /\ sinceStop') => emitted' = <<>> ]_vars

\* C6: start() on a Running timer emits nothing and arms nothing, so after
\* start() and start() again one initial tick was emitted and one interval
\* is armed.
C6_StartIdempotent ==
    [][ /\ (lastOp' = "start" /\ intervalId # null) =>
              /\ emitted' = <<>>
              /\ delivered' = <<>>
              /\ timers' = timers
              /\ intervalId' = intervalId
              /\ lastMode' = lastMode
        /\ (lastOp' = "start" /\ intervalId = null) =>
              /\ emitted' # <<>>
              /\ emitted'[1].name = "tick"
              /\ \A i \in 2..Len(emitted') : emitted'[i].name # "tick"
        /\ lastOp' = "start" =>
              /\ timers' = {intervalId'}
              /\ Cardinality(timers') = 1 ]_vars

\* start() was called on a Running timer: nothing emitted, one interval armed.
C6_Witness ==
    /\ lastOp = "start"
    /\ emitted = <<>>
    /\ intervalId # null
    /\ Cardinality(timers) = 1
    /\ lastMode # "null"

\* In a sequence of events every period-change comes right after a tick of
\* the same mode.
ChangeFollowsTick(events) ==
    \A i \in 1..Len(events) :
        events[i].name = "period-change" =>
            /\ i > 1
            /\ events[i - 1].name = "tick"
            /\ events[i - 1].type = events[i].type

\* C7: every period-change event comes right after a tick event of the same
\* cycle that carries the same mode, with no event between them, as emitted
\* and as the listeners createApp registers receive them.
C7_ChangeRightAfterTick ==
    /\ ChangeFollowsTick(emitted)
    /\ {"tick", "period-change"} \subseteq listeners => ChangeFollowsTick(delivered)

\* The hour wrapped (xx:00:00) under both listeners: tick and period-change.
C7_Witness ==
    /\ now = 0
    /\ {"tick", "period-change"} \subseteq listeners
    /\ delivered = <<[name |-> "tick", type |-> "work", remaining |-> 1500],
                     [name |-> "period-change", type |-> "work", remaining |-> 1500]>>


\* C8: destroy() can run in every state, again and before any start(); it
\* leaves no interval armed and no listener registered, and until a new
\* listener is registered nothing is delivered, a resume signal included.
C8_DestroyReleases ==
    [][ /\ ENABLED destroy
        /\ lastOp' = "destroy" =>
              /\ intervalId' = null
              /\ timers' = {}
              /\ listeners' = {}
              /\ delivered' = <<>>
        /\ (listeners = {} /\ lastOp' # "on") =>
              /\ listeners' = {}
              /\ delivered' = <<>> ]_vars

\* A resume signal came after destroy() on a timer that had ticked in the
\* other mode: tick and period-change were emitted and no listener was left
\* to receive them.
C8_Witness ==
    /\ lastOp = "resume"
    /\ sinceStop /\ ~sinceStart
    /\ listeners = {}
    /\ Len(emitted) = 2
    /\ emitted[2].name = "period-change"
    /\ delivered = <<>>

\* C9: a resume signal on a Running timer runs one recompute cycle: one tick
\* with the period of the wall clock, then period-change if and only if the
\* mode differs from the last emitted tick's; the interval stays armed. At
\* xx:10:30 after a work tick: tick {work, 870} and nothing else.
C9_ResumeWhileRunning ==
    [][ (lastOp' = "resume" /\ intervalId # null) =>
          LET m == getMinutes(now)
              s == getSeconds(now)
              state == [type |-> TimetableMode(m),
                        remaining |-> TimetableEnd(m) * 60 - (m * 60 + s)]
              tickEvent == [name |-> "tick", type |-> state.type,
                            remaining |-> state.remaining]
              changeEvent == [name |-> "period-change", type |-> state.type,
                              remaining |-> state.remaining]
          IN /\ emitted' = IF prevTick # "null" /\ prevTick # state.type
                           THEN <<tickEvent, changeEvent>>
                           ELSE <<tickEvent>>
             /\ (now = 630 /\ prevTick = "work") =>
                   emitted' = <<[name |-> "tick", type |-> "work", remaining |-> 870]>>
             /\ intervalId' = intervalId
             /\ timers' = timers
             /\ now' = now ]_vars

\* A resume signal reached a Running timer at xx:10:30.
C9_Witness ==
    /\ lastOp = "resume"
    /\ intervalId # null
    /\ now = 630
    /\ emitted = <<[name |-> "tick", type |-> "work", remaining |-> 870]>>

\* C10 as claimed: a resume signal that comes before start() or after
\* destroy() runs no recompute cycle and changes nothing of the timer.
C10_ResumeOutsideLifetime ==
    [][ (lastOp' = "resume" /\ ~sinceStart) =>
          /\ emitted' = <<>>
          /\ lastMode' = lastMode
          /\ intervalId' = intervalId ]_vars


\* C11: a cycle that follows another cycle at the same second, whichever of
\* the interval and the resume signal ran them, emits the same tick again and
\* no period-change; a period-change is emitted once for a change of mode,
\* and the cycle that emits it is the one that sees the mode change.
C11_ReplacementNotAccumulation ==
    [][ /\ (emitted # <<>> /\ emitted' # <<>> /\ now' = now) =>
              emitted' = <<emitted[1]>>
        /\ HasPeriodChange(emitted') =>
              /\ Len(emitted') = 2
              /\ prevTick # "null"
              /\ prevTick' # prevTick ]_vars

\* A resume cycle on a Running timer at xx:25:00, after the tick of this
\* second: the tick again, no period-change.
C11_Witness ==
    /\ lastOp = "resume"
    /\ intervalId # null
    /\ now = 25 * 60
    /\ prevTick = "rest"
    /\ emitted = <<[name |-> "tick", type |-> "rest", remaining |-> 300]>>

\* C12 as claimed: the application has a single TimeController, created
\* once, started once and destroyed once: at most one interval is armed,
\* while the application runs the timer is started and has its observers,
\* and after the quit it has neither interval nor observers.
C12_SingleTimerLoop ==
    /\ Cardinality(timers) <= 1
    /\ running => (intervalId # null /\ listeners = appListeners)
    /\ phase = "quit" => (timers = {} /\ listeners = {})

\* C13: the remaining time of every tick is a positive whole number of
\* seconds, at most the length of its segment and at most 1800.
C13_RemainingPositiveBounded ==
    emitted # <<>> =>
        LET m == getMinutes(now)
            r == emitted[1].remaining
        IN /\ r \in Nat
           /\ r > 0
           /\ r <= 1800
           /\ \E i \in Covering(m) :
                r <= (POMODORO_SEGMENTS[i].endMinute - POMODORO_SEGMENTS[i].startMinute) * 60

\* A tick in the last second of the hour: one second remains.
C13_Witness ==
    /\ now = 3599
    /\ emitted # <<>>
    /\ emitted[1].remaining = 1

\* C14: one second after a tick the period calculator gives the same mode and
\* one second less while the segment lasts, and at the segment's end the
\* other mode with that segment's full length: 300 after work, 1500 after
\* rest, the hour's wrap included.
C14_CountsDownThenResets ==
    emitted # <<>> =>
        LET this == emitted[1]
            next == getCurrentPeriod(getMinutes(now + 1), getSeconds(now + 1))
        IN IF this.remaining > 1
           THEN /\ next.type = this.type
                /\ next.remaining = this.remaining - 1
           ELSE /\ next.type # this.type
                /\ next.type \in PomodoroMode
                /\ next.remaining = IF this.type = "work" THEN 300 ELSE 1500

\* A tick at xx:59:59, the second before the hour wraps.
C14_Witness ==
    /\ now = 3599
    /\ emitted # <<>>
    /\ emitted[1] = [name |-> "tick", type |-> "rest", remaining |-> 1]

\* The first seconds of the four segments.
SegmentStarts == {0, 25 * 60, 30 * 60, 55 * 60}

\* C15: a cycle of a Running timer at the first second of a segment, after a
\* tick of the segment before, emits the tick with the new mode and the full
\* time, then period-change with the new mode: rest and 300 at xx:25:00 and
\* xx:55:00, work and 1500 at xx:00:00 and xx:30:00.
C15_BoundaryTickThenChange ==
    [][ ( /\ IsCycle(lastOp')
          /\ intervalId # null
          /\ now \in SegmentStarts
          /\ prevTick # "null"
          /\ prevTick # TimetableMode(getMinutes(now)) ) =>
        LET mode == IF now \in {25 * 60, 55 * 60} THEN "rest" ELSE "work"
            full == IF mode = "rest" THEN 300 ELSE 1500
        IN emitted' = <<[name |-> "tick", type |-> mode, remaining |-> full],
                        [name |-> "period-change", type |-> mode, remaining |-> full]>> ]_vars

\* The interval fired at xx:00:00 after the hour wrapped.
C15_Witness ==
    /\ lastOp = "interval"
    /\ now = 0
    /\ emitted = <<[name |-> "tick", type |-> "work", remaining |-> 1500],
                   [name |-> "period-change", type |-> "work", remaining |-> 1500]>>

\* The wall clock is in mode m and the last tick of the started timer, which
\* has a listener for period-change, was in the other mode.
ChangePending(m) ==
    /\ intervalId # null
    /\ "period-change" \in listeners
    /\ lastMode # "null"
    /\ lastMode # m
    /\ TimetableMode(getMinutes(now)) = m

\* A period-change event with mode m reached the listener.
ChangeDelivered(m) ==
    \E i \in 1..Len(delivered) :
        delivered[i].name = "period-change" /\ delivered[i].type = m

C17_IdleOrRunning ==
    [][ /\ timers = (IF intervalId = null THEN {} ELSE {intervalId})
        /\ timers' = (IF intervalId' = null THEN {} ELSE {intervalId'})
        /\ Cardinality(timers') <= 1
        /\ (intervalId = null /\ intervalId' # null) => lastOp' = "start"
        /\ (intervalId # null /\ intervalId' = null) => lastOp' \in {"stop", "destroy"} ]_vars

\* stop() took a timer that had ticked from Running to Idle.
C17_Witness ==
    /\ lastOp = "stop"
    /\ sinceStart /\ sinceStop
    /\ intervalId = null
    /\ timers = {}
    /\ lastMode # "null"

\* The segments of a table that hold minute m.
CoveringIn(segments, m) ==
    {i \in 1..Len(segments) :
        segments[i].startMinute <= m /\ m < segments[i].endMinute}

\* C19: the period calculator fails exactly when no segment of the table
\* holds the current minute; with the fixed table it fails at no minute, and
\* every cycle emits its tick.
C19_FailsOnlyUncovered ==
    LET m == getMinutes(now)
        failed == getCurrentPeriod(m, getSeconds(now)) = InvalidTimeState
    IN /\ failed <=> CoveringIn(table, m) = {}
       /\ IsCycle(lastOp) => (emitted = <<>> <=> CoveringIn(table, m) = {})
       /\ table = POMODORO_SEGMENTS => ~failed /\ ~faulted

\* With the malformed table a cycle ran at minute 57 and emitted nothing.
C19_Witness ==
    /\ table = MalformedTable
    /\ getMinutes(now) = 57
    /\ IsCycle(lastOp)
    /\ emitted = <<>>

\* C20 as claimed: on every tick the window is sent {mode, remaining,
\* formattedTime} and the tray is given formattedTime, the MM:SS rendering
\* of that tick's remaining time, so that the tray's countdown equals the
\* formattedTime last sent to the window.
C20_SameDataEveryTick ==
    (running /\ IsCycle(lastOp) /\ emitted # <<>>) =>
        /\ emitted[1].name = "tick"
        /\ sent # <<>>
        /\ sent[1] = [channel |-> "time-update", type |-> emitted[1].type,
                      remaining |-> emitted[1].remaining, formattedTime |-> countdown]
        /\ countdown = formatTime(emitted[1].remaining)
        /\ countdown = lastSent


\* The decimal digits, by value.
Digits == <<"0", "1", "2", "3", "4", "5", "6", "7", "8", "9">>

\* The values of the digit d, none when d is no digit.
DigitValues(d) == {v \in 0..9 : Digits[v + 1] = d}

\* The number two digits at position i of str stand for; -1 when they are
\* not two digits.
TwoDigitsAt(str, i) ==
    LET tens == DigitValues(SubSeq(str, i, i))
        ones == DigitValues(SubSeq(str, i + 1, i + 1))
    IN IF tens = {} \/ ones = {} THEN -1
       ELSE (CHOOSE v \in tens : TRUE) * 10 + (CHOOSE v \in ones : TRUE)

\* "MM:SS" read back as MM*60 + SS; -1 when the text has another shape.
ParseTime(str) ==
    IF Len(str) # 5 THEN -1
    ELSE IF SubSeq(str, 3, 3) # ":" THEN -1
    ELSE IF TwoDigitsAt(str, 1) < 0 \/ TwoDigitsAt(str, 4) < 0 THEN -1
    ELSE TwoDigitsAt(str, 1) * 60 + TwoDigitsAt(str, 4)

\* C21: the text formatTime returns for the remaining time of any second of
\* the hour, read back as MM*60 + SS, is that remaining time, which is
\* between 1 and 1500.
C21_FormatRoundTrip ==
    lastOp = "formatTime" =>
        /\ args[1] \in 1..1500
        /\ ParseTime(returned) = args[1]

\* At xx:24:59 one second remains and "00:01" reads back as 1.
C21_Witness ==
    /\ lastOp = "formatTime"
    /\ now = 24 * 60 + 59
    /\ args = <<1>>
    /\ returned = "00:01"
    /\ ParseTime(returned) = 1

\* C22: the text formatTime returns is five characters, two digits, a colon
\* and two digits; the first two are floor(remaining/60), the last two are
\* remaining mod 60 and below 60; 1 is rendered "00:01" and 300 "05:00".
C22_FormatShape ==
    lastOp = "formatTime" =>
        LET r == args[1] IN
        /\ Len(returned) = 5
        /\ SubSeq(returned, 3, 3) = ":"
        /\ TwoDigitsAt(returned, 1) = r \div 60
        /\ TwoDigitsAt(returned, 4) = r % 60
        /\ TwoDigitsAt(returned, 4) < 60
        /\ r = 1 => returned = "00:01"
        /\ r = 300 => returned = "05:00"
        /\ r = 1500 => returned = "25:00"

\* At xx:25:00 300 seconds remain, rendered "05:00".
C22_Witness ==
    /\ lastOp = "formatTime"
    /\ now = 25 * 60
    /\ args = <<300>>
    /\ returned = "05:00"


\* C26: lastMode is the mode of the last tick this timer emitted, and null
\* exactly while it has emitted none; a step that emits nothing, stop() and
\* destroy() among them, leaves lastMode as it was.
C26_LastModeIsLastTick ==
    [][ /\ lastMode = prevTick
        /\ lastMode' = prevTick'
        /\ lastMode' = "null" <=> prevTick' = "null"
        /\ emitted' # <<>> =>
              /\ emitted'[1].name = "tick"
              /\ lastMode' = emitted'[1].type
        /\ emitted' = <<>> => lastMode' = lastMode
        /\ lastOp' \in {"stop", "destroy"} => lastMode' = lastMode ]_vars

\* stop() on a timer whose last tick was in a rest segment.
C26_Witness ==
    /\ lastOp = "stop"
    /\ sinceStart /\ sinceStop
    /\ intervalId = null
    /\ lastMode = "rest"
    /\ prevTick = "rest"

\* C28: a cycle in which the period calculator throws emits no event and
\* leaves lastMode as it was; when it is the initial tick of start() the
\* timer stays Idle, with no interval armed.
C28_ThrowLeavesNoTrace ==
    [][ ( /\ lastOp' \in {"start", "interval", "resume"}
          /\ CoveringIn(table, getMinutes(now)) = {} ) =>
        /\ emitted' = <<>>
        /\ delivered' = <<>>
        /\ lastMode' = lastMode
        /\ prevTick' = prevTick
        /\ (lastOp' = "start" /\ intervalId = null) =>
              /\ intervalId' = null
              /\ timers' = {} ]_vars

\* start() at minute 57 over the table without the last segment: still Idle.
C28_Witness ==
    /\ lastOp = "start"
    /\ table = MalformedTable
    /\ getMinutes(now) = 57
    /\ intervalId = null
    /\ timers = {}
    /\ emitted = <<>>
    /\ lastMode = "null"


\* The menu actions and IPC requests of C23, by the name their handler
\* leaves in lastOp.
UiOps ==
    {"tray:toggle-character", "tray:increase-size", "tray:decrease-size",
     "tray:next-character", "menu:toggle-character", "menu:increase-size",
     "menu:decrease-size", "menu:next-character", "ipc:hide-window",
     "ipc:save-position", "ipc:get-settings", "ipc:save-settings"}

\* The Increase Size and Decrease Size actions of the two menus.
SizeOps ==
    {"tray:increase-size", "tray:decrease-size",
     "menu:increase-size", "menu:decrease-size"}

\* C23: a tray or menu action (toggle character, increase size, decrease
\* size, next character) or an IPC request (hide window, save position, get
\* settings, save settings) leaves the timer Running or Idle as it was,
\* leaves its lastMode, emits no tick and no period-change, and sends no
\* time update or period change to the window.
C23_ObserversNeverDrive ==
    [][ (actions' # actions) =>
        /\ lastOp' \in UiOps
        /\ intervalId' = intervalId
        /\ timers' = timers
        /\ lastMode' = lastMode
        /\ prevTick' = prevTick
        /\ listeners' = listeners
        /\ emitted' = <<>>
        /\ delivered' = <<>>
        /\ \A i \in 1..Len(sent') :
              sent'[i].channel \notin {"time-update", "period-change"}
        /\ currentMode' = currentMode
        /\ countdown' = countdown ]_vars

\* A menu action or IPC request was handled while the timer was Running in
\* a rest segment.
C23_Witness ==
    /\ lastOp \in UiOps
    /\ actions > 0
    /\ intervalId # null
    /\ timers = {intervalId}
    /\ lastMode = "rest"

\* C24 as claimed: the scale the settings hold lies between 0.5 and 3.0.
C24_StoredScaleInRange ==
    /\ settings.window.scale >= 50
    /\ settings.window.scale <= 300

\* C25 as claimed: after an Increase Size or Decrease Size action the
\* window's scale lies between 0.5 and 2.0.
C25_ScaleUpToTwo ==
    lastOp \in SizeOps =>
        /\ scale >= 50
        /\ scale <= 200

\* C27 as claimed: after an Increase Size or Decrease Size action the scale
\* the settings hold is the scale the window manager holds.
C27_StoredScaleIsWindowScale ==
    lastOp \in SizeOps => settings.window.scale = scale

\* C29: when the renderer's listener receives a time update, the renderer
\* is in the mode of the message afterwards, whether or not a period change
\* was ever delivered; once init() has applied the initial mode, the body's
\* class and the image show that mode; a period change for the mode the
\* renderer is in changes nothing it shows.
C29_TimeUpdateSetsMode ==
    [][ ( /\ lastOp' = "renderer:message"
          /\ inflight # <<>>
          /\ inflight' = Tail(inflight)
          /\ renderer.loaded \in {"listening", "ready"} ) =>
        LET m == Head(inflight) IN
        /\ m.channel = "time-update" =>
              /\ renderer'.currentMode = m.type
              /\ renderer.loaded = "ready" =>
                    /\ renderer'.className = m.type
                    /\ renderer'.image = <<renderer.currentCharacter, m.type>>
              /\ renderer.loaded = "listening" =>
                    \/ renderer'.className = m.type
                    \/ m.type = "work" /\ renderer'.className = "html"
        /\ (m.channel = "period-change" /\ renderer.loaded = "ready"
                /\ m.mode = renderer.currentMode) =>
              renderer' = renderer ]_vars

\* sendTimeUpdate was called in a rest segment: the window manager is still
\* in its initial work mode, no period change was sent, and the renderer,
\* having received the time update, shows rest.
C29_Witness ==
    /\ lastOp = "renderer:message"
    /\ now = 29 * 60 + 59
    /\ elapsed = 0
    /\ currentMode = "work"
    /\ inflight = <<>>
    /\ renderer.loaded = "ready"
    /\ renderer.currentMode = "rest"
    /\ renderer.className = "rest"

\* The roster, as a set.
Roster == {AVAILABLE_CHARACTERS[i] : i \in 1..Len(AVAILABLE_CHARACTERS)}

\* The character after c in the roster, written out.
FollowingCharacter(c) ==
    CASE c = "augustine-of-hippo" -> "thomas-aquinas"
      [] c = "thomas-aquinas" -> "saint-patrick"
      [] c = "saint-patrick" -> "augustine-of-hippo"
      [] OTHER -> "augustine-of-hippo"

\* C30: Next Character, from the tray or the menu, stores the character
\* that follows the stored one in the roster, the first after the last and
\* the first for a stored character that is not in the roster; the stored
\* character is then in the roster, the same character is sent to the
\* window if there is one, and three such steps from a character of the
\* roster lead back to it.
C30_NextCharacterCycles ==
    [][ (actions' # actions /\ lastOp' \in {"tray:next-character", "menu:next-character"}) =>
        /\ settings'.character = FollowingCharacter(settings.character)
        /\ settings'.character \in Roster
        /\ settings' = [settings EXCEPT !.character = settings'.character]
        /\ window = "open" =>
              sent' = <<[channel |-> "character-change",
                         character |-> FollowingCharacter(settings.character)]>>
        /\ window # "open" => sent' = <<>>
        /\ settings.character \in Roster =>
              nextCharacter(nextCharacter(settings'.character)) = settings.character ]_vars

\* Next Character from the last character of the roster, the window open:
\* the first character is stored and sent.
C30_Witness ==
    /\ lastOp = "tray:next-character"
    /\ actions = 2
    /\ settings.character = "augustine-of-hippo"
    /\ sent = <<[channel |-> "character-change", character |-> "augustine-of-hippo"]>>
    /\ inflight # <<>>
    /\ inflight[Len(inflight)] = sent[1]


\* C31 as claimed: a tick that occurs while there is no character window
\* sends nothing to a window, raises no error, gives the tray the countdown
\* of that tick, and the timer keeps running.
C31_AbsentWindowSilent ==
    [][ ( /\ running
          /\ IsCycle(lastOp')
          /\ window = "null"
          /\ window' = "null"
          /\ emitted' # <<>> ) =>
        /\ sent' = <<>>
        /\ inflight' = inflight
        /\ faulted' = faulted
        /\ emitted'[1].name = "tick"
        /\ countdown' = formatTime(emitted'[1].remaining)
        /\ timers' = timers
        /\ timers' # {}
        /\ intervalId' = intervalId ]_vars


\* The keys of the stored window and the other keys of the store.
WindowKeys == {"x", "y", "scale", "opacity"}
TopKeys == {"character", "launchAtStartup", "showInDock"}

\* From the store a to the store b nothing changed but the window keys wk
\* and the top-level keys tk.
OnlyChanged(a, b, wk, tk) ==
    /\ DOMAIN b = DOMAIN a
    /\ DOMAIN b.window \subseteq WindowKeys
    /\ \A k \in WindowKeys \ wk :
          /\ (k \in DOMAIN b.window) = (k \in DOMAIN a.window)
          /\ k \in DOMAIN a.window => b.window[k] = a.window[k]
    /\ \A k \in TopKeys \ tk : b[k] = a[k]

\* C32: savePosition changes only window.x and window.y, saveScale only
\* window.scale, saveOpacity only window.opacity, saveCharacter only
\* character, and saveSettings only the keys its partial object has, those
\* of a partial window object included; the keys written hold the values
\* given, and a window key given as undefined is no longer stored.
C32_WritesOwnField ==
    [][ /\ lastOp' = "savePosition" =>
              /\ OnlyChanged(settings, settings', {"x", "y"}, {})
              /\ settings'.window.x = args'[1]
              /\ settings'.window.y = args'[2]
        /\ lastOp' = "saveScale" =>
              /\ OnlyChanged(settings, settings', {"scale"}, {})
              /\ settings'.window.scale = args'[1]
        /\ lastOp' = "saveOpacity" =>
              /\ OnlyChanged(settings, settings', {"opacity"}, {})
              /\ settings'.window.opacity = args'[1]
        /\ lastOp' = "saveCharacter" =>
              /\ OnlyChanged(settings, settings', {}, {"character"})
              /\ settings'.character = args'[1]
        /\ lastOp' = "saveSettings" =>
              LET partial == args'[1]
                  wk == IF "window" \in DOMAIN partial
                        THEN DOMAIN partial.window ELSE {}
              IN /\ OnlyChanged(settings, settings', wk, DOMAIN partial)
                 /\ \A k \in wk :
                       IF partial.window[k] = undefined
                       THEN k \notin DOMAIN settings'.window
                       ELSE settings'.window[k] = partial.window[k][1]
                 /\ \A k \in TopKeys \cap DOMAIN partial :
                       settings'[k] = partial[k] ]_vars

\* saveSettings was given a window object with x alone, on a store whose
\* other fields had been changed from the defaults: they are as they were.
C32_Witness ==
    /\ lastOp = "saveSettings"
    /\ args = <<[window |-> [x |-> <<0>>]]>>
    /\ settings.window = [x |-> 0, y |-> 0, scale |-> 110, opacity |-> 50]
    /\ settings.character = "saint-patrick"
    /\ settings.launchAtStartup
    /\ settings.showInDock


\* The menu windows that exist and were not asked to close.
OpenMenuWindows ==
    {w \in 1..Len(menuWindows) : menuWindows[w] \in {"loading", "hidden", "shown"}}

\* C33 as claimed: at most one custom menu window exists at any time.
C33_SingleMenuWindow == Cardinality(OpenMenuWindows) <= 1

====
